---- MODULE Spec2Model ----
(***************************************************************************)
(* Model of the ezdxf tag/attribute engine:                                *)
(*   - AC1009Factory and TableWrapper   (ezdxf/ac1009/__init__.py)         *)
(*   - Block and EndBlk entities        (ezdxf/entities/block.py)          *)
(* A tag is a pair <<group code, value>>.  Python sequences are 0-based,   *)
(* TLA+ sequences 1-based: tags[0] of the source is tags[1] here.          *)
(***************************************************************************)
EXTENDS Integers, Sequences, FiniteSets, TLC

VARIABLES
    table,       \* the table wrapped by TableWrapper: name, header tags, entries
    result,      \* outcome of the last AC1009Factory / TableWrapper call
    tags,        \* raw tag sequence of the entity being read
    processor,   \* the processor argument of load_dxf_attribs (None or on tags)
    dxf,         \* DXFNamespace of the entity
    out,         \* tags written to the tagwriter by the last export
    dxfversion,  \* tagwriter.dxfversion of the last export
    state,       \* "unloaded" | "loaded" | "exported"
    packer,      \* the packer handed to GeneticDriver.__init__
    gd,          \* the GeneticDriver object
    call,        \* the last call of add_dna / execute and how it ended
    pc           \* "idle" | "running" (inside execute) | "returned" | "raised"

vars == <<table, result, tags, processor, dxf, out, dxfversion, state,
          packer, gd, call, pc>>

tablesVars == <<table, result>>
blocksVars == <<tags, processor, dxf, out, dxfversion, state>>
driverVars == <<packer, gd, call, pc>>

(***************************************************************************)
(* Bounds                                                                  *)
(***************************************************************************)
MaxCount == 2        \* set_count arguments are 0..MaxCount
MaxHeaderExtra == 2  \* header tags after the (0,TABLE),(2,name) prefix
MaxTags == 3         \* raw tags of one entity
MaxStrands == 1      \* DNA strands added with add_dna before execute
MaxGenerations == 2  \* max_generations is in 1..MaxGenerations

(***************************************************************************)
(* Helpers on tag sequences                                                *)
(***************************************************************************)
code(tag) == tag[1]
value(tag) == tag[2]

HasCode(ts, c) == \E i \in 1..Len(ts) : code(ts[i]) = c

\* index of the first tag with group code c (0 when there is none)
tag_index(ts, c) ==
    IF HasCode(ts, c)
    THEN CHOOSE i \in 1..Len(ts) :
            code(ts[i]) = c /\ \A j \in 1..(i - 1) : code(ts[j]) # c
    ELSE 0

(***************************************************************************)
(* AC1009Factory                                                           *)
(***************************************************************************)
GenericTableEntry == "GenericTableEntry"
Layer == "Layer"
DimStyle == "DimStyle"

TABLE_ENTRY_WRAPPERS == ("LAYER" :> Layer) @@ ("DIMSTYLE" :> DimStyle)

TableTypes == {"LAYER", "DIMSTYLE", "LTYPE", "STYLE"}
Handles == {"A1", "A2"}
Attribs == {"name=0", "name=X"}

NoHandle == ""
NoAttribs == ""
NoEntry == <<>>

\* a table entry object: its wrapper class and what it was built from
Entry(class_, handle, attribs, ts) ==
    [class_ |-> class_, handle |-> handle, attribs |-> attribs, tags |-> ts]

Returned(v) == [raised |-> "none", value |-> <<v>>]
Raised(e) == [raised |-> e, value |-> NoEntry]

\* the wrapper is looked up under the constant key 'LAYER'; a KeyError of the
\* lookup is turned into ValueError
new_table_entry(type_, handle, attribs) ==
    LET key == "LAYER" IN
    IF key \in DOMAIN TABLE_ENTRY_WRAPPERS
    THEN Returned(Entry(TABLE_ENTRY_WRAPPERS[key], handle, attribs, <<>>))
    ELSE Raised("ValueError")

\* a wrapper lookup by subscript instead of dict.get(type_, GenericTableEntry)
table_entry_wrapper_strict(ts) ==
    LET type_ == value(ts[1]) IN
    IF type_ \in DOMAIN TABLE_ENTRY_WRAPPERS
    THEN Returned(Entry(TABLE_ENTRY_WRAPPERS[type_], NoHandle, NoAttribs, ts))
    ELSE Raised("KeyError")

table_entry_wrapper(ts) ==
    LET type_ == value(ts[1])
        wrapper == IF type_ \in DOMAIN TABLE_ENTRY_WRAPPERS
                   THEN TABLE_ENTRY_WRAPPERS[type_]
                   ELSE GenericTableEntry
    IN Returned(Entry(wrapper, NoHandle, NoAttribs, ts))

(***************************************************************************)
(* TableWrapper                                                            *)
(***************************************************************************)
\* Tags.update(code, value): overwrite the first tag with this group code;
\* a header without such a tag is a StructuralError and stays as it is
update(ts, c, v) ==
    IF HasCode(ts, c)
    THEN [raised |-> "none",
          tags |-> [ts EXCEPT ![tag_index(ts, c)] = <<c, v>>]]
    ELSE [raised |-> "StructuralError", tags |-> ts]

\* a set_count that overwrites every count tag of the header
set_count_all(t, count) ==
    LET r == update(t._table_header, 70, count) IN
    [raised |-> r.raised,
     table |-> [t EXCEPT !._table_header =
                   [i \in 1..Len(t._table_header) |->
                       IF code(t._table_header[i]) = 70
                       THEN <<70, count>> ELSE t._table_header[i]]]]

\* a set_count that patches a header without count tag by appending one
set_count_append(t, count) ==
    IF HasCode(t._table_header, 70)
    THEN [raised |-> "none",
          table |-> [t EXCEPT !._table_header =
                        update(t._table_header, 70, count).tags]]
    ELSE [raised |-> "none",
          table |-> [t EXCEPT !._table_header = Append(@, <<70, count>>)]]

set_count(t, count) ==
    LET r == update(t._table_header, 70, count) IN
    [raised |-> r.raised, table |-> [t EXCEPT !._table_header = r.tags]]

(***************************************************************************)
(* Attribute schemas of BLOCK and ENDBLK                                   *)
(***************************************************************************)
DXF12 == 1009          \* 'AC1009', the legacy flat revision
DXF2000 == 1015        \* 'AC1015'
DXF2018 == 1032        \* 'AC1032'
SUBCLASS_MARKER == 100

Versions == {DXF12, DXF2000, DXF2018}

NoDefault == <<>>
Default(v) == <<v>>
Vector(x, y, z) == <<x, y, z>>

\* DXFAttr(code, xtype=..., default=...); point is TRUE for XType.any_point
DXFAttr(c, point, default) == [code |-> c, point |-> point, default |-> default]

\* DefSubclass(name, {attribute name: DXFAttr}), attributes in declared order
DefSubclass(name, attribs) == [name |-> name, attribs |-> attribs]

\* the base class carries handle and owner; no tag of the modelled alphabet
\* belongs to it
base_class == DefSubclass("", <<>>)

acdb_entity == DefSubclass("AcDbEntity", <<
    <<"layer", DXFAttr(8, FALSE, Default("0"))>>
>>)

acdb_block_begin == DefSubclass("AcDbBlockBegin", <<
    <<"name", DXFAttr(2, FALSE, NoDefault)>>,
    <<"name2", DXFAttr(3, FALSE, NoDefault)>>,
    <<"description", DXFAttr(4, FALSE, Default(""))>>,
    <<"flags", DXFAttr(70, FALSE, Default(0))>>,
    <<"base_point", DXFAttr(10, TRUE, Default(Vector(0, 0, 0)))>>,
    <<"xref_path", DXFAttr(1, FALSE, Default(""))>>
>>)

acdb_block_end == DefSubclass("AcDbBlockEnd", <<>>)

\* DXFAttributes(base_class, acdb_entity, ...) of the entity classes
DXFATTRIBS(dxftype) ==
    IF dxftype = "BLOCK" THEN <<base_class, acdb_entity, acdb_block_begin>>
    ELSE IF dxftype = "ENDBLK" THEN <<base_class, acdb_entity, acdb_block_end>>
    ELSE <<>>

\* group codes an attribute is written with: one per axis for a point
attr_codes(a) == IF a.point THEN {a.code, a.code + 10, a.code + 20} ELSE {a.code}

subclass_codes(sub) ==
    UNION {attr_codes(sub.attribs[i][2]) : i \in 1..Len(sub.attribs)}

\* group codes that load from a tag: the first code of every attribute
subclass_load_codes(sub) ==
    {sub.attribs[i][2].code : i \in 1..Len(sub.attribs)}

schema_load_codes(dxftype) ==
    UNION {subclass_load_codes(DXFATTRIBS(dxftype)[k]) :
              k \in 1..Len(DXFATTRIBS(dxftype))}

HasAttr(sub, name) == \E i \in 1..Len(sub.attribs) : sub.attribs[i][1] = name

GetAttr(sub, name) ==
    sub.attribs[CHOOSE i \in 1..Len(sub.attribs) : sub.attribs[i][1] = name][2]

\* DXFAttributes.get(name): <<attribute>> or <<>>
dxfattribs_get(dxftype, name) ==
    LET schema == DXFATTRIBS(dxftype)
        owners == {k \in 1..Len(schema) : HasAttr(schema[k], name)}
    IN IF owners = {} THEN <<>>
       ELSE <<GetAttr(schema[CHOOSE k \in owners : TRUE], name)>>

(***************************************************************************)
(* SubclassProcessor and DXFNamespace                                      *)
(***************************************************************************)
None == <<>>
SubclassProcessor(ts) == <<ts>>

IsMarker(tag) == code(tag) = SUBCLASS_MARKER

\* input of the legacy flat revision: no subclass markers at all
r12(ts) == ~HasCode(ts, SUBCLASS_MARKER)

\* the tags between the marker of the named subclass and the next marker;
\* empty when the marker is absent
subclass_segment(ts, name) ==
    LET starts == {i \in 1..Len(ts) : ts[i] = <<SUBCLASS_MARKER, name>>} IN
    IF starts = {} THEN <<>>
    ELSE LET i == CHOOSE m \in starts : \A n \in starts : m <= n
             later == {j \in (i + 1)..Len(ts) : IsMarker(ts[j])}
             j == IF later = {} THEN Len(ts) + 1
                  ELSE CHOOSE m \in later : \A n \in later : m <= n
         IN SubSeq(ts, i + 1, j - 1)

\* flat input is one base segment that every subclass loads from
find_subclass(ts, name) == IF r12(ts) THEN ts ELSE subclass_segment(ts, name)

\* tags the entity schema does not claim: no marker, and no attribute of any
\* subclass loads from their group code
unclaimed_tags(dxftype, ts) ==
    LET claimed == schema_load_codes(dxftype)
        Unclaimed(tag) == ~IsMarker(tag) /\ code(tag) \notin claimed
    IN SelectSeq(ts, Unclaimed)

\* DXFNamespace(processor, entity)
DXFNamespace(dxftype, proc) ==
    [dxftype |-> dxftype,
     values |-> <<>>,
     unclaimed |-> IF proc = None THEN <<>> ELSE unclaimed_tags(dxftype, proc[1])]

\* first matching tag wins; an attribute without tag gets its default, an
\* attribute without tag and without default stays absent
load_dxfattribs_into_namespace(ns, proc, sub) ==
    LET seg == find_subclass(proc[1], sub.name)
        Loaded(a) == IF HasCode(seg, a.code)
                     THEN <<value(seg[tag_index(seg, a.code)])>>
                     ELSE a.default
        names == {sub.attribs[i][1] : i \in
                     {k \in 1..Len(sub.attribs) : Loaded(sub.attribs[k][2]) # <<>>}}
        new == [n \in names |-> Loaded(GetAttr(sub, n))[1]]
    IN [ns EXCEPT !.values = new @@ @]

\* DXFEntity.load_dxf_attribs: a new namespace (base class attributes are
\* not modelled)
super_load_dxf_attribs(dxftype, proc) == DXFNamespace(dxftype, proc)

write_tag2(w, c, v) == Append(w, <<c, v>>)

\* one tag per axis for a point, codes c, c + 10, c + 20
write_attrib(w, a, v) ==
    IF a.point
    THEN w \o [i \in 1..Len(v) |-> <<a.code + 10 * (i - 1), v[i]>>]
    ELSE write_tag2(w, a.code, v)

\* writes the stored value; with force the default of an absent attribute
export_dxf_attribute(w, ns, name, force) ==
    LET found == dxfattribs_get(ns.dxftype, name) IN
    IF found = <<>> THEN w
    ELSE LET a == found[1]
             v == IF name \in DOMAIN ns.values THEN <<ns.values[name]>>
                  ELSE IF force THEN a.default
                  ELSE <<>>
         IN IF v = <<>> THEN w ELSE write_attrib(w, a, v[1])

RECURSIVE export_dxf_attribs(_, _, _, _)
export_dxf_attribs(w, ns, names, force) ==
    IF names = <<>> THEN w
    ELSE export_dxf_attribs(export_dxf_attribute(w, ns, Head(names), force),
                            ns, Tail(names), force)

\* DXFEntity.export_entity: base class export (not modelled: writes no tag of
\* the modelled alphabet)
super_export_entity(w) == w

(***************************************************************************)
(* Block and EndBlk                                                        *)
(***************************************************************************)
\* a load that forgets the AcDbBlockBegin subclass
Block_load_dxf_attribs_entity_only(proc) ==
    LET ns == super_load_dxf_attribs("BLOCK", proc) IN
    IF proc = None THEN ns
    ELSE load_dxfattribs_into_namespace(ns, proc, acdb_entity)

Block_load_dxf_attribs(proc) ==
    LET ns == super_load_dxf_attribs("BLOCK", proc) IN
    IF proc = None THEN ns
    ELSE load_dxfattribs_into_namespace(
             load_dxfattribs_into_namespace(ns, proc, acdb_entity),
             proc, acdb_block_begin)

\* an export that writes the AcDbBlockBegin attributes in declared order
Block_export_entity_declared(ns, version) ==
    LET w0 == super_export_entity(<<>>)
        w1 == IF version > DXF12
              THEN write_tag2(w0, SUBCLASS_MARKER, acdb_entity.name) ELSE w0
        w2 == export_dxf_attribute(w1, ns, "layer", FALSE)
        w3 == IF version > DXF12
              THEN write_tag2(w2, SUBCLASS_MARKER, acdb_block_begin.name) ELSE w2
    IN export_dxf_attribs(w3, ns,
           <<"name", "name2", "description", "flags", "base_point", "xref_path">>,
           TRUE)

\* an export that compares the revision with >= and so writes the markers
\* at DXF12 too
Block_export_entity_ge(ns, version) ==
    LET w0 == super_export_entity(<<>>)
        w1 == IF version >= DXF12
              THEN write_tag2(w0, SUBCLASS_MARKER, acdb_entity.name) ELSE w0
        w2 == export_dxf_attribute(w1, ns, "layer", FALSE)
        w3 == IF version >= DXF12
              THEN write_tag2(w2, SUBCLASS_MARKER, acdb_block_begin.name) ELSE w2
        w4 == export_dxf_attribs(w3, ns,
                  <<"name", "flags", "base_point", "name2", "xref_path">>, TRUE)
    IN export_dxf_attribute(w4, ns, "description", FALSE)

\* an export that does not force the defaults of absent attributes
Block_export_entity_unforced(ns, version) ==
    LET w0 == super_export_entity(<<>>)
        w1 == IF version > DXF12
              THEN write_tag2(w0, SUBCLASS_MARKER, acdb_entity.name) ELSE w0
        w2 == export_dxf_attribute(w1, ns, "layer", FALSE)
        w3 == IF version > DXF12
              THEN write_tag2(w2, SUBCLASS_MARKER, acdb_block_begin.name) ELSE w2
        w4 == export_dxf_attribs(w3, ns,
                  <<"name", "flags", "base_point", "name2", "xref_path">>, FALSE)
    IN export_dxf_attribute(w4, ns, "description", FALSE)

Block_export_entity(ns, version) ==
    LET w0 == super_export_entity(<<>>)
        w1 == IF version > DXF12
              THEN write_tag2(w0, SUBCLASS_MARKER, acdb_entity.name) ELSE w0
        w2 == export_dxf_attribute(w1, ns, "layer", FALSE)
        w3 == IF version > DXF12
              THEN write_tag2(w2, SUBCLASS_MARKER, acdb_block_begin.name) ELSE w2
        w4 == export_dxf_attribs(w3, ns,
                  <<"name", "flags", "base_point", "name2", "xref_path">>, TRUE)
    IN export_dxf_attribute(w4, ns, "description", FALSE)

EndBlk_load_dxf_attribs(proc) ==
    LET ns == super_load_dxf_attribs("ENDBLK", proc) IN
    IF proc = None THEN ns
    ELSE load_dxfattribs_into_namespace(
             load_dxfattribs_into_namespace(ns, proc, acdb_entity),
             proc, acdb_block_end)

EndBlk_export_entity(ns, version) ==
    LET w0 == super_export_entity(<<>>)
        w1 == IF version > DXF12
              THEN write_tag2(w0, SUBCLASS_MARKER, acdb_entity.name) ELSE w0
        w2 == export_dxf_attribute(w1, ns, "layer", FALSE)
    IN IF version > DXF12
       THEN write_tag2(w2, SUBCLASS_MARKER, acdb_block_end.name) ELSE w2

(***************************************************************************)
(* GeneticDriver (ezdxf/addons/dnapacking.py).  Gene values and fill       *)
(* ratios are scaled: the genes 0 and 1 stand for 0.0 and 1.0, the fill    *)
(* ratios 0, 1, 2 for 0.0, 0.5, 1.0.  random.random() < rate has both      *)
(* outcomes when 0 < rate < 1 and is false when rate = 0.                  *)
(***************************************************************************)
Genes == {0, 1}
PackerItems == {1, 2}
PackerWeights == {0, 1}
ElitismSettings == {0, 1, 2, 3}

Min2(a, b) == IF a < b THEN a ELSE b
Max2(a, b) == IF a > b THEN a ELSE b

RECURSIVE SumSeq(_)
SumSeq(s) == IF s = <<>> THEN 0 ELSE Head(s) + SumSeq(Tail(s))

\* FloatDNA(values): fitness is None until measured.  shared marks a list
\* element that is the very object self.best_dna (not a copy of it)
FloatDNA(values) == [_data |-> values, fitness |-> None, shared |-> FALSE]

\* DNA.copy(): a deep copy is a new object
copy(dna) == [dna EXCEPT !.shared = FALSE]

_taint(dna) == [dna EXCEPT !.fitness = None]

\* the packers: len(packer.items) items; the fill ratio that
\* schematic_pack(iter(dna)) reaches is a fixed function of the DNA data
Packers == {[items |-> n, weight |-> k] : n \in PackerItems, k \in PackerWeights}

get_fill_ratio(p, data) == Min2(2, p.weight * SumSeq(data))

\* the DNA strands a caller may hand to add_dna, right and wrong lengths
DNAs == {FloatDNA(v) : v \in UNION {[1..k -> Genes] : k \in 0..2}}

\* GeneticDriver.__init__ on a packer that is not packed, max_generations >= 1
GeneticDriver(p, max_generations) ==
    [_required_dna_length |-> p.items,
     _dna_strands |-> <<>>,
     _max_generations |-> max_generations,
     _max_fitness |-> 2,
     elitism |-> 2,
     generation |-> 0,
     best_dna |-> FloatDNA(<<>>),
     best_fitness |-> 0,
     stagnation |-> 0]

\* an is_executed that takes the first generation for "not yet executed"
is_executed_after_first(d) == d.generation > 1

is_executed(d) == d.generation # 0

add_dna(d, dna) ==
    IF ~is_executed(d)
    THEN IF Len(dna._data) # d._required_dna_length
         THEN [raised |-> "ValueError", gd |-> d]
         ELSE [raised |-> "none",
               gd |-> [d EXCEPT !._dna_strands = Append(@, dna)]]
    ELSE [raised |-> "TypeError", gd |-> d]

\* the for loop over self._dna_strands of _measure_fitness, from strand i on;
\* dna.fitness = fill_ratio sets the fitness of the object, so of every list
\* element that is this object, and of self.best_dna when it is this object
RECURSIVE measure_loop(_, _, _)
measure_loop(d, p, i) ==
    IF i > Len(d._dna_strands) THEN d
    ELSE LET dna == d._dna_strands[i] IN
         IF dna.fitness # None THEN measure_loop(d, p, i + 1)
         ELSE LET fill_ratio == get_fill_ratio(p, dna._data)
                  measured == [j \in 1..Len(d._dna_strands) |->
                      IF j = i \/ (dna.shared /\ d._dna_strands[j].shared)
                      THEN [d._dna_strands[j] EXCEPT !.fitness = <<fill_ratio>>]
                      ELSE d._dna_strands[j]]
                  d1 == [d EXCEPT !._dna_strands = measured,
                                  !.best_dna = IF dna.shared
                                               THEN [@ EXCEPT !.fitness = <<fill_ratio>>]
                                               ELSE @]
                  d2 == IF fill_ratio > d.best_fitness
                        THEN [d1 EXCEPT
                                !.best_fitness = fill_ratio,
                                !.best_dna = copy(measured[i]),
                                !.stagnation = 0,
                                !._dna_strands =
                                    [j \in 1..Len(measured) |->
                                        [measured[j] EXCEPT !.shared = FALSE]]]
                        ELSE d1
              IN measure_loop(d2, p, i + 1)

_measure_fitness(d, p) == measure_loop([d EXCEPT !.stagnation = @ + 1], p, 1)

\* s[i1:i2] of Python (0-based, clamped to the length)
Slice(s, i1, i2) == SubSeq(s, Min2(i1, Len(s)) + 1, Min2(i2, Len(s)))

\* dna[i1:i2] = part through __setitem__, which taints
SetSlice(dna, i1, i2, part) ==
    _taint([dna EXCEPT !._data =
               Slice(@, 0, i1) \o part \o Slice(@, Max2(i1, i2), Len(@))])

recombine_dna_2pcx(dna1, dna2, i1, i2) ==
    LET part1 == Slice(dna1._data, i1, i2)
        part2 == Slice(dna2._data, i1, i2)
    IN <<SetSlice(dna1, i1, i2, part2), SetSlice(dna2, i1, i2, part1)>>

\* the results of _recombination: i1, i2 = randrange(0, length), swapped
\* when i1 > i2
_recombination(d, dna1, dna2) ==
    {recombine_dna_2pcx(dna1, dna2, Min2(i1, i2), Max2(i1, i2)) :
        i1 \in 0..(d._required_dna_length - 1),
        i2 \in 0..(d._required_dna_length - 1)}

\* the results of DNA.mutate(rate, MutationType.FLIP): every set of indices
\* may be hit when the rate is positive, none when it is 0
mutate(dna, positive_rate) ==
    IF ~positive_rate THEN {dna}
    ELSE {IF hit = {} THEN dna
          ELSE _taint([dna EXCEPT !._data =
                          [i \in 1..Len(dna._data) |->
                              IF i \in hit THEN 1 - dna._data[i] ELSE dna._data[i]]])
            : hit \in SUBSET (1..Len(dna._data))}

\* the results of _mutation: the rate is _mutation_rate * stagnation
_mutation(d, dna1, dna2) ==
    {<<m1, m2>> : m1 \in mutate(dna1, d.stagnation > 0),
                  m2 \in mutate(dna2, d.stagnation > 0)}

\* RouletteSelection.update: all weights are 0 when no strand has fitness
ZeroWeights(strands) == \A i \in 1..Len(strands) : strands[i].fitness[1] = 0

\* the results of selector.pick(2), random.choices by weight, when some weight
\* is positive: a strand of weight 0 is never chosen
pick(strands) ==
    LET pickable == {i \in 1..Len(strands) : strands[i].fitness[1] > 0}
    IN {<<strands[i], strands[j]>> : i \in pickable, j \in pickable}

\* one pass of the while loop body of _next_generation: the pairs that may
\* be appended
new_pairs(d, picked) ==
    LET dna1 == copy(picked[1])
        dna2 == copy(picked[2])
        recombined == {<<dna1, dna2>>} \cup _recombination(d, dna1, dna2)
    IN UNION {_mutation(d, pair[1], pair[2]) : pair \in recombined}

\* the while loop of _next_generation.  random.choices over weights that are
\* all 0 raises ValueError from Python 3.9 on and returns the last strand
\* before: both outcomes are kept
RECURSIVE next_generation_loop(_, _, _)
next_generation_loop(d, dna_strands, count) ==
    IF Len(dna_strands) < count
    THEN LET strands == d._dna_strands
             picks == IF ZeroWeights(strands)
                      THEN {<<strands[Len(strands)], strands[Len(strands)]>>}
                      ELSE pick(strands)
             raises == IF ZeroWeights(strands)
                       THEN {[raised |-> "ValueError", strands |-> strands]}
                       ELSE {}
         IN raises \cup
            UNION {next_generation_loop(d, dna_strands \o pair, count) :
                      pair \in UNION {new_pairs(d, picked) : picked \in picks}}
    ELSE {[raised |-> "none", strands |-> dna_strands]}

\* a _next_generation that cuts the new population to the old size
next_generation_trimmed(d) ==
    LET count == Len(d._dna_strands)
        elite == IF d.elitism > 0
                 THEN [i \in 1..d.elitism |-> [d.best_dna EXCEPT !.shared = TRUE]]
                 ELSE <<>>
    IN {[r EXCEPT !.strands = SubSeq(@, 1, count)] :
           r \in next_generation_loop(d, elite, count)}

\* the outcomes of _next_generation: the new self._dna_strands, or the error
_next_generation(d) ==
    LET count == Len(d._dna_strands)
        elite == IF d.elitism > 0
                 THEN [i \in 1..d.elitism |-> [d.best_dna EXCEPT !.shared = TRUE]]
                 ELSE <<>>
    IN next_generation_loop(d, elite, count)

NoCall == [op |-> "none", dna |-> <<>>, raised |-> "none"]

InitDriverIdle ==
    /\ packer = [items |-> 1, weight |-> 1]
    /\ gd = GeneticDriver(packer, 1)
    /\ call = NoCall
    /\ pc = "idle"

(***************************************************************************)
(* State machine of the TABLES side                                        *)
(***************************************************************************)
HeaderExtraTags == {<<70, 0>>, <<70, 1>>, <<5, "A0">>, <<330, "0">>}

SeqsUpTo(S, n) == UNION {[1..k -> S] : k \in 0..n}

Tables ==
    {[name |-> n,
      _table_header |-> <<<<0, "TABLE">>, <<2, n>>>> \o extra,
      entries |-> e]
        : n \in {"LAYER", "LTYPE"},
          extra \in SeqsUpTo(HeaderExtraTags, MaxHeaderExtra),
          e \in {<<>>, <<"0">>}}

NoResult == [op |-> "none", type_ |-> "", count |-> 0,
             raised |-> "none", value |-> NoEntry]

Result(op, type_, count, r) ==
    [op |-> op, type_ |-> type_, count |-> count,
     raised |-> r.raised, value |-> r.value]

NewTableEntry ==
    \E type_ \in TableTypes, handle \in Handles, attribs \in Attribs :
        /\ result' = Result("new_table_entry", type_, 0,
                            new_table_entry(type_, handle, attribs))
        /\ UNCHANGED <<table, blocksVars, driverVars>>

TableEntryWrapper ==
    \E type_ \in TableTypes, handle \in Handles :
        /\ result' = Result("table_entry_wrapper", type_, 0,
                            table_entry_wrapper(<<<<0, type_>>, <<5, handle>>>>))
        /\ UNCHANGED <<table, blocksVars, driverVars>>

SetCount ==
    \E count \in 0..MaxCount :
        LET r == set_count(table, count) IN
        /\ table' = r.table
        /\ result' = Result("set_count", "", count,
                            [raised |-> r.raised, value |-> NoEntry])
        /\ UNCHANGED <<blocksVars, driverVars>>

InitBlocksIdle ==
    /\ tags = <<>>
    /\ processor = None
    /\ dxf = DXFNamespace("", None)
    /\ out = <<>>
    /\ dxfversion = DXF12
    /\ state = "unloaded"

InitTables ==
    /\ table \in Tables
    /\ result = NoResult
    /\ InitBlocksIdle
    /\ InitDriverIdle

NextTables == NewTableEntry \/ TableEntryWrapper \/ SetCount

SpecTables == InitTables /\ [][NextTables]_vars

(***************************************************************************)
(* State machine of the BLOCKS side: the reader delivers the raw tags of   *)
(* one entity, the entity is loaded (or built without processor), and the  *)
(* namespace is exported any number of times.                              *)
(***************************************************************************)
TagAlphabet == {
    <<SUBCLASS_MARKER, "AcDbEntity">>, <<SUBCLASS_MARKER, "AcDbBlockBegin">>,
    <<SUBCLASS_MARKER, "AcDbBlockEnd">>,
    <<8, "L1">>, <<8, "L2">>, <<2, "B1">>, <<3, "B2">>, <<4, "d">>, <<70, 1>>,
    <<10, Vector(5, 6, 7)>>, <<1, "x">>, <<999, "f1">>, <<999, "f2">>}

ReadTag ==
    /\ state = "unloaded"
    /\ Len(tags) < MaxTags
    /\ \E tag \in TagAlphabet : tags' = Append(tags, tag)
    /\ UNCHANGED <<driverVars, tablesVars, processor, dxf, out, dxfversion, state>>

Block_Load ==
    /\ state = "unloaded"
    /\ processor' = SubclassProcessor(tags)
    /\ dxf' = Block_load_dxf_attribs(processor')
    /\ state' = "loaded"
    /\ UNCHANGED <<driverVars, tablesVars, tags, out, dxfversion>>

Block_New ==
    /\ state = "unloaded"
    /\ tags = <<>>
    /\ processor' = None
    /\ dxf' = Block_load_dxf_attribs(None)
    /\ state' = "loaded"
    /\ UNCHANGED <<driverVars, tablesVars, tags, out, dxfversion>>

Block_Export ==
    /\ state \in {"loaded", "exported"}
    /\ dxf.dxftype = "BLOCK"
    /\ \E version \in Versions :
        /\ out' = Block_export_entity(dxf, version)
        /\ dxfversion' = version
    /\ state' = "exported"
    /\ UNCHANGED <<driverVars, tablesVars, tags, processor, dxf>>

EndBlk_Load ==
    /\ state = "unloaded"
    /\ processor' = SubclassProcessor(tags)
    /\ dxf' = EndBlk_load_dxf_attribs(processor')
    /\ state' = "loaded"
    /\ UNCHANGED <<driverVars, tablesVars, tags, out, dxfversion>>

EndBlk_New ==
    /\ state = "unloaded"
    /\ tags = <<>>
    /\ processor' = None
    /\ dxf' = EndBlk_load_dxf_attribs(None)
    /\ state' = "loaded"
    /\ UNCHANGED <<driverVars, tablesVars, tags, out, dxfversion>>

EndBlk_Export ==
    /\ state \in {"loaded", "exported"}
    /\ dxf.dxftype = "ENDBLK"
    /\ \E version \in Versions :
        /\ out' = EndBlk_export_entity(dxf, version)
        /\ dxfversion' = version
    /\ state' = "exported"
    /\ UNCHANGED <<driverVars, tablesVars, tags, processor, dxf>>

InitBlocks ==
    /\ table = [name |-> "LAYER",
                _table_header |-> <<<<0, "TABLE">>, <<2, "LAYER">>, <<70, 0>>>>,
                entries |-> <<>>]
    /\ result = NoResult
    /\ InitBlocksIdle
    /\ InitDriverIdle

NextBlocks ==
    \/ ReadTag
    \/ Block_Load \/ Block_New \/ Block_Export
    \/ EndBlk_Load \/ EndBlk_New \/ EndBlk_Export

SpecBlocks == InitBlocks /\ [][NextBlocks]_vars

(***************************************************************************)
(* State machine of the GeneticDriver: one driver, its options set and     *)
(* DNA added before the run, execute one generation per step.              *)
(***************************************************************************)
\* driver.elitism = e, set by the application before the run
SetElitism ==
    /\ pc = "idle"
    /\ ~is_executed(gd)
    /\ \E e \in ElitismSettings : gd' = [gd EXCEPT !.elitism = e]
    /\ UNCHANGED <<tablesVars, blocksVars, packer, call, pc>>

AddDna ==
    /\ pc # "running"
    /\ \E dna \in DNAs :
          LET r == add_dna(gd, dna) IN
          /\ r.raised = "none" => Len(gd._dna_strands) < MaxStrands
          /\ gd' = r.gd
          /\ call' = [op |-> "add_dna", dna |-> dna._data, raised |-> r.raised]
    /\ UNCHANGED <<tablesVars, blocksVars, packer, pc>>

\* execute() up to the for loop
Execute ==
    /\ pc # "running"
    /\ IF is_executed(gd)
       THEN /\ call' = [op |-> "execute", dna |-> <<>>, raised |-> "TypeError"]
            /\ UNCHANGED pc
       ELSE /\ call' = [op |-> "execute", dna |-> <<>>, raised |-> "none"]
            /\ pc' = "running"
    /\ UNCHANGED <<tablesVars, blocksVars, packer, gd>>

\* one pass of the for loop of execute(); stop stands for the breaks on
\* max_time and on feedback(self)
Execute_Generation ==
    /\ pc = "running"
    /\ gd.generation < gd._max_generations
    /\ LET measured == _measure_fitness(
                           [gd EXCEPT !.generation = gd.generation + 1], packer)
       IN IF measured.best_fitness >= measured._max_fitness
          THEN gd' = measured /\ pc' = "returned" /\ UNCHANGED call
          ELSE \E stop \in BOOLEAN :
                  IF stop
                  THEN gd' = measured /\ pc' = "returned" /\ UNCHANGED call
                  ELSE \E r \in _next_generation(measured) :
                          IF r.raised = "none"
                          THEN /\ gd' = [measured EXCEPT !._dna_strands = r.strands]
                               /\ UNCHANGED <<pc, call>>
                          ELSE /\ gd' = measured
                               /\ pc' = "raised"
                               /\ call' = [call EXCEPT !.raised = r.raised]
    /\ UNCHANGED <<tablesVars, blocksVars, packer>>

\* the for loop is exhausted: execute() returns
Execute_Return ==
    /\ pc = "running"
    /\ gd.generation = gd._max_generations
    /\ pc' = "returned"
    /\ UNCHANGED <<tablesVars, blocksVars, packer, gd, call>>

InitDriver ==
    /\ table = [name |-> "LAYER",
                _table_header |-> <<<<0, "TABLE">>, <<2, "LAYER">>, <<70, 0>>>>,
                entries |-> <<>>]
    /\ result = NoResult
    /\ InitBlocksIdle
    /\ packer \in Packers
    /\ \E max_generations \in 1..MaxGenerations :
          gd = GeneticDriver(packer, max_generations)
    /\ call = NoCall
    /\ pc = "idle"

NextDriver ==
    SetElitism \/ AddDna \/ Execute \/ Execute_Generation \/ Execute_Return

SpecDriver == InitDriver /\ [][NextDriver]_vars

(***************************************************************************)
(* Claims about AC1009Factory                                              *)
(***************************************************************************)
Registered(type_) == type_ \in DOMAIN TABLE_ENTRY_WRAPPERS

\* C1: new_table_entry with a type_ that has no wrapper in
\* TABLE_ENTRY_WRAPPERS raises ValueError and returns no table entry.
C1_UnknownTypeRaises ==
    (result.op = "new_table_entry" /\ ~Registered(result.type_))
        => (result.raised = "ValueError" /\ result.value = NoEntry)

\* C2: for a type_ registered in TABLE_ENTRY_WRAPPERS, new_table_entry builds
\* the entry with the wrapper registered for that type_, the one that
\* table_entry_wrapper selects for tags whose first value is type_.
C2_RegisteredTypeGetsItsWrapper ==
    (result.op = "new_table_entry" /\ Registered(result.type_))
        => /\ result.raised = "none"
           /\ Len(result.value) = 1
           /\ result.value[1].class_ = TABLE_ENTRY_WRAPPERS[result.type_]
           /\ result.value[1].class_ =
                  table_entry_wrapper(<<<<0, result.type_>>>>).value[1].class_

\* C3: table_entry_wrapper never fails on the type name: a registered type
\* name is wrapped with its registered wrapper, every other type name with
\* GenericTableEntry, and the wrapped tags are the tags passed in.
C3_WrapperNeverFails ==
    result.op = "table_entry_wrapper"
        => /\ result.raised = "none"
           /\ Len(result.value) = 1
           /\ value(result.value[1].tags[1]) = result.type_
           /\ Registered(result.type_)
                  => result.value[1].class_ = TABLE_ENTRY_WRAPPERS[result.type_]
           /\ ~Registered(result.type_)
                  => result.value[1].class_ = GenericTableEntry

C3_Witness ==
    /\ result.op = "table_entry_wrapper"
    /\ result.type_ = "LTYPE"
    /\ result.raised = "none"
    /\ result.value[1].class_ = GenericTableEntry

(***************************************************************************)
(* Claims about Block and EndBlk                                           *)
(***************************************************************************)
Codes(ts) == [i \in 1..Len(ts) |-> code(ts[i])]

BlockLoaded ==
    state \in {"loaded", "exported"} /\ dxf.dxftype = "BLOCK" /\ processor # None

BlockExported == state = "exported" /\ dxf.dxftype = "BLOCK"

\* the tags of a sequence that carry an AcDbBlockBegin attribute
BlockBeginTags(ts) ==
    LET Known(tag) == code(tag) \in subclass_codes(acdb_block_begin)
    IN SelectSeq(ts, Known)

\* position, in a list of attribute names, of the attribute written with code c
Rank(order, c) ==
    CHOOSE i \in 1..Len(order) : c \in attr_codes(GetAttr(acdb_block_begin, order[i]))

\* attributes appear in the order of the list, each at most once, the axes
\* of a point in ascending code order
InOrder(ts, order) ==
    LET bb == BlockBeginTags(ts) IN
    \A i, j \in 1..Len(bb) :
        i < j => \/ Rank(order, code(bb[i])) < Rank(order, code(bb[j]))
                 \/ /\ Rank(order, code(bb[i])) = Rank(order, code(bb[j]))
                    /\ code(bb[i]) < code(bb[j])

DeclaredOrder ==
    [i \in 1..Len(acdb_block_begin.attribs) |-> acdb_block_begin.attribs[i][1]]

ExportOrder ==
    <<"name", "flags", "base_point", "name2", "xref_path", "description">>

\* C4 (as claimed): an exported Block carries the AcDbBlockBegin attributes
\* in the declared order name, name2, description, flags, base_point,
\* xref_path, whatever the order of the input tags.
C4_DeclaredAttributeOrder == BlockExported => InOrder(out, DeclaredOrder)

\* C4 (amended): an exported Block carries the AcDbBlockBegin attributes in
\* the order listed by export_entity: name, flags, base_point, name2,
\* xref_path, description, whatever the order of the input tags; the layer
\* tag of AcDbEntity precedes all of them.
C4_ExportListOrder ==
    BlockExported
        => /\ InOrder(out, ExportOrder)
           /\ \A i, j \in 1..Len(out) :
                 (code(out[j]) = 8 /\ code(out[i]) \in subclass_codes(acdb_block_begin))
                    => j < i

C4_Witness ==
    /\ BlockExported
    /\ tags = <<<<4, "d">>, <<3, "B2">>, <<2, "B1">>>>
    /\ Codes(out) = <<8, 2, 70, 10, 20, 30, 3, 1, 4>>

IsSubclassMarker(tag, sub) == tag = <<SUBCLASS_MARKER, sub.name>>

NonMarkers(ts) ==
    LET Plain(tag) == ~IsMarker(tag) IN SelectSeq(ts, Plain)

\* marker of the first subclass, its attributes, marker of the second
\* subclass, its attributes
MarkedLayout(ts, first, second) ==
    /\ Len(ts) >= 2
    /\ IsSubclassMarker(ts[1], first)
    /\ \E k \in 2..Len(ts) :
          /\ IsSubclassMarker(ts[k], second)
          /\ \A i \in 2..(k - 1) : code(ts[i]) \in subclass_codes(first)
          /\ \A i \in (k + 1)..Len(ts) : code(ts[i]) \in subclass_codes(second)

\* C5: Block.export_entity and EndBlk.export_entity write the code-100 marker
\* of each of their subclasses immediately before that subclass's attributes
\* exactly when the revision is later than DXF12; at DXF12 no code-100 tag is
\* written, and the other tags are the same, in the same order, at every
\* revision.
C5_MarkersOnlyAfterDXF12 ==
    /\ [](state = "exported" =>
            IF dxfversion > DXF12
            THEN MarkedLayout(out, DXFATTRIBS(dxf.dxftype)[2],
                              DXFATTRIBS(dxf.dxftype)[3])
            ELSE ~HasCode(out, SUBCLASS_MARKER))
    /\ [][(state = "exported" /\ state' = "exported")
            => NonMarkers(out') = NonMarkers(out)]_vars

C5_Witness ==
    /\ BlockExported
    /\ dxfversion = DXF2000
    /\ out = <<<<SUBCLASS_MARKER, "AcDbEntity">>, <<8, "L1">>,
               <<SUBCLASS_MARKER, "AcDbBlockBegin">>, <<2, "B1">>, <<70, 1>>,
               <<10, 0>>, <<20, 0>>, <<30, 0>>, <<1, "">>, <<4, "">>>>

schema_codes(dxftype) ==
    UNION {subclass_codes(DXFATTRIBS(dxftype)[k]) : k \in 1..Len(DXFATTRIBS(dxftype))}

\* the tags of a sequence whose group code matches no attribute of any
\* subclass of the entity's schema
ForeignTags(dxftype, ts) ==
    LET Foreign(tag) == ~IsMarker(tag) /\ code(tag) \notin schema_codes(dxftype)
    IN SelectSeq(ts, Foreign)

\* C6: input tags whose code matches no attribute of the entity's schema are
\* kept by load in the unclaimed tags and written again by export, unmodified
\* and in their original order, after the schema-known tags of their segment.
C6_UnclaimedTagsReexported ==
    /\ BlockLoaded => dxf.unclaimed = ForeignTags(dxf.dxftype, tags)
    /\ (BlockLoaded /\ state = "exported")
          => /\ ForeignTags(dxf.dxftype, out) = ForeignTags(dxf.dxftype, tags)
             /\ \A i, j \in 1..Len(out) :
                   (/\ i < j
                    /\ code(out[i]) \notin schema_codes(dxf.dxftype)
                    /\ ~IsMarker(out[i])
                    /\ code(out[j]) \in schema_codes(dxf.dxftype))
                       => \E k \in (i + 1)..(j - 1) : IsMarker(out[k])

BlockAttr(name) == dxfattribs_get("BLOCK", name)[1]

NoInputTag(name) == ~HasCode(tags, BlockAttr(name).code)

\* C7 (as claimed): after the load of a Block every optional attribute
\* without input tag (layer, name2, description, flags, base_point,
\* xref_path) is present in the namespace with its schema default.
C7_EveryOptionalAttributeDefaulted ==
    BlockLoaded
        => \A name \in {"layer", "name2", "description", "flags",
                        "base_point", "xref_path"} :
              NoInputTag(name)
                 => /\ name \in DOMAIN dxf.values
                    /\ <<dxf.values[name]>> = BlockAttr(name).default

DeclaredDefaults ==
    ("layer" :> "0") @@ ("description" :> "") @@ ("flags" :> 0)
        @@ ("base_point" :> <<0, 0, 0>>) @@ ("xref_path" :> "")

\* C7 (amended): after the load of a Block every attribute that declares a
\* default (layer, description, flags, base_point, xref_path) and has no input
\* tag is present in the namespace with that default; name2 declares no
\* default and is not among them.
C7_DeclaredDefaultsPresent ==
    BlockLoaded
        => /\ \A name \in DOMAIN DeclaredDefaults :
                 NoInputTag(name)
                    => /\ name \in DOMAIN dxf.values
                       /\ dxf.values[name] = DeclaredDefaults[name]
           /\ BlockAttr("name2").default = NoDefault

C7_Witness ==
    /\ BlockLoaded
    /\ state = "loaded"
    /\ tags = <<<<2, "B1">>, <<3, "B2">>>>
    /\ dxf.values["flags"] = 0
    /\ dxf.values["base_point"] = <<0, 0, 0>>
    /\ dxf.values["layer"] = "0"

PointTags(ts) ==
    LET Axis(tag) == code(tag) \in {10, 20, 30} IN SelectSeq(ts, Axis)

FlagsTags(ts) ==
    LET Flags(tag) == code(tag) = 70 IN SelectSeq(ts, Flags)

\* C8: an exported Block whose input set neither flags nor base_point carries
\* the tag (70, 0) and the tags (10, 0), (20, 0), (30, 0) in this order, one
\* after the other; every exported Block carries all axes of base_point, in
\* the order x, y, z, or none.
C8_DefaultFlagsAndBasePointWritten ==
    BlockExported
        => /\ Codes(PointTags(out)) \in {<<>>, <<10, 20, 30>>}
           /\ (~HasCode(tags, 70) /\ ~HasCode(tags, 10))
                 => /\ FlagsTags(out) = <<<<70, 0>>>>
                    /\ PointTags(out) = <<<<10, 0>>, <<20, 0>>, <<30, 0>>>>
                    /\ \E i \in 1..Len(out) :
                          /\ i + 2 <= Len(out)
                          /\ SubSeq(out, i, i + 2) = PointTags(out)

C8_Witness ==
    /\ BlockExported
    /\ tags = <<<<8, "L1">>, <<2, "B1">>>>
    /\ dxfversion = DXF2000
    /\ out = <<<<SUBCLASS_MARKER, "AcDbEntity">>, <<8, "L1">>,
               <<SUBCLASS_MARKER, "AcDbBlockBegin">>, <<2, "B1">>, <<70, 0>>,
               <<10, 0>>, <<20, 0>>, <<30, 0>>, <<1, "">>, <<4, "">>>>

(***************************************************************************)
(* Claims about GeneticDriver                                              *)
(***************************************************************************)
\* C11: after execute() has returned, generation is in 1..max_generations and
\* every later execute() or add_dna() raises TypeError and leaves the DNA
\* population, generation, best_fitness and best_dna unchanged; before
\* execute(), add_dna() with a DNA of the wrong length raises ValueError and
\* adds nothing.
C11_RunsAtMostOnce ==
    /\ [](pc = "returned" => gd.generation \in 1..gd._max_generations)
    /\ [][(pc = "returned" /\ call'.op \in {"execute", "add_dna"})
            => /\ call'.raised = "TypeError"
               /\ pc' = "returned"
               /\ gd'._dna_strands = gd._dna_strands
               /\ gd'.generation = gd.generation
               /\ gd'.best_fitness = gd.best_fitness
               /\ gd'.best_dna = gd.best_dna]_vars
    /\ [][(/\ pc = "idle"
           /\ call'.op = "add_dna"
           /\ Len(call'.dna) # gd._required_dna_length)
            => /\ call'.raised = "ValueError"
               /\ gd'._dna_strands = gd._dna_strands]_vars

C11_Witness ==
    /\ pc = "returned"
    /\ call.op = "add_dna"
    /\ Len(call.dna) = gd._required_dna_length
    /\ call.raised = "TypeError"
    /\ gd.generation = MaxGenerations
    /\ Len(gd._dna_strands) > 0

\* a step of execute() in which _next_generation replaced the population
NextGenerationStep ==
    pc = "running" /\ pc' = "running" /\ gd'.generation # gd.generation

\* C12 (as claimed): for every population size and every elitism setting,
\* _next_generation replaces the population by one of the same size.
C12_PopulationSizeKept ==
    [][NextGenerationStep
          => Len(gd'._dna_strands) = Len(gd._dna_strands)]_vars

\* size of the population that _next_generation builds from count strands
NextSize(count, elitism) ==
    LET elite == Max2(elitism, 0) IN
    IF elite >= count THEN elite ELSE count + ((count - elite) % 2)

\* C12 (amended): _next_generation never shrinks the population, and keeps
\* its size exactly when the population is at least as large as the elitism
\* and exceeds it by an even number; otherwise the new population has
\* elitism strands (elitism >= size) or one strand more than before (the
\* strands beyond the elite are appended in pairs).
C12_PopulationSizeAfterNextGeneration ==
    [][NextGenerationStep
          => /\ Len(gd'._dna_strands) = NextSize(Len(gd._dna_strands), gd.elitism)
             /\ Len(gd'._dna_strands) >= Len(gd._dna_strands)
             /\ Len(gd'._dna_strands) <= Max2(Len(gd._dna_strands), gd.elitism) + 1
             /\ gd'.elitism = gd.elitism]_vars

C12_Witness ==
    /\ pc = "running"
    /\ gd.generation >= 1
    /\ Len(gd._dna_strands) > MaxStrands
    /\ gd.elitism < Len(gd._dna_strands)

(***************************************************************************)
(* Claims about TableWrapper.set_count.  Every step that changes the state *)
(* and ends with result.op = "set_count" is a call of set_count with the   *)
(* argument result'.count.                                                 *)
(***************************************************************************)
\* C9: set_count(n) on a header with a count tag (group code 70) sets that
\* tag's value to n, changes no other header tag and nothing else of the
\* table; a second set_count(n) with the same n leaves the table as it is.
C9_SetCountOverwritesOnlyCount ==
    [][ /\ (result'.op = "set_count" /\ HasCode(table._table_header, 70))
            => /\ result'.raised = "none"
               /\ \E k \in 1..Len(table._table_header) :
                     /\ code(table._table_header[k]) = 70
                     /\ table'._table_header =
                           [table._table_header EXCEPT ![k] = <<70, result'.count>>]
               /\ table'.name = table.name
               /\ table'.entries = table.entries
               /\ DOMAIN table' = DOMAIN table
        /\ (/\ result.op = "set_count" /\ result.raised = "none"
            /\ result'.op = "set_count" /\ result'.count = result.count)
            => table' = table
      ]_vars

C9_Witness ==
    /\ result.op = "set_count"
    /\ result.raised = "none"
    /\ result.count = MaxCount
    /\ Len(table._table_header) = 4
    /\ table._table_header[3] = <<70, MaxCount>>
    /\ code(table._table_header[4]) = 70
    /\ table._table_header[4] # <<70, MaxCount>>

\* C10: set_count(n) on a header without a count tag raises StructuralError
\* and leaves the header (and the table) unchanged: no tag is appended or
\* modified.
C10_SetCountWithoutCountTagRaises ==
    [][ (result'.op = "set_count" /\ ~HasCode(table._table_header, 70))
            => /\ result'.raised = "StructuralError"
               /\ table' = table
      ]_vars

C10_Witness ==
    /\ result.op = "set_count"
    /\ result.raised = "StructuralError"
    /\ ~HasCode(table._table_header, 70)
    /\ Len(table._table_header) = 2 + MaxHeaderExtra

====
